---- MODULE Spec2Model ----
(***************************************************************************)
(* A model of app.py: the image-folder-to-PDF pipeline                     *)
(* (natural_sort_key, convert_images_to_pdf) and the Tk front end that     *)
(* drives it (ImageToPdfApp.start_conversion).                             *)
(*                                                                         *)
(* Text is modelled as sequences of Unicode code points, Python floats as  *)
(* IEEE-754 binary64 values (53-bit significand, round to nearest even)    *)
(* held as multi-limb naturals, because the geometry of a page is computed *)
(* in floating point.                                                      *)
(***************************************************************************)
EXTENDS Integers, Sequences, FiniteSets, TLC

VARIABLES
    image_folder,    \* self.image_folder: "" or the chosen folder
    output_pdf,      \* self.output_pdf: "" or the chosen destination
    page_size,       \* self.page_size: the radio button's value
    start_button,    \* self.start_button's state: "normal" | "disabled"
    progress_label,  \* self.progress_label's text: the last event displayed
    dialog,          \* the messagebox of the latest start_conversion call
                     \* ("none" until it shows one)
    pc,              \* where the conversion run stands ("idle": no run)
    exc,             \* the exception in flight to the outer handler, or "none"
    canvas,          \* the reportlab Canvas c: "none" or its page size name
    listing,         \* what os.listdir returned, in enumeration order
    image_files,     \* the filtered, sorted list of names
    idx,             \* number of files the loop has finished with
    pages,           \* the pages shown (c.showPage) so far, in order
    save_calls,      \* number of calls of c.save() in this run
    out_file,        \* what this run's c.save() has written to the destination
    events,          \* every progress_callback invocation of this run, in order
    cb_raised        \* whether a progress_callback invocation raised in this run

vars == <<image_folder, output_pdf, page_size, start_button, progress_label,
          dialog, pc, exc, canvas, listing, image_files, idx, pages,
          save_calls, out_file, events, cb_raised>>

-----------------------------------------------------------------------------
(* Natural numbers of any size: little-endian sequences of limbs below     *)
(* LimbBase, without high zero limbs (zero is the empty sequence).         *)

LimbBits == 15

LimbBase == 2^LimbBits

RECURSIVE BigTrim(_)
BigTrim(a) ==
    IF a = <<>> THEN <<>>
    ELSE IF a[Len(a)] = 0 THEN BigTrim(SubSeq(a, 1, Len(a) - 1))
    ELSE a

RECURSIVE BigFromInt(_)
BigFromInt(n) ==
    IF n = 0 THEN <<>> ELSE <<n % LimbBase>> \o BigFromInt(n \div LimbBase)

RECURSIVE BigCmpAt(_, _, _)
BigCmpAt(a, b, i) ==
    IF i = 0 THEN 0
    ELSE IF a[i] > b[i] THEN 1
    ELSE IF a[i] < b[i] THEN -1
    ELSE BigCmpAt(a, b, i - 1)

\* -1, 0 or 1 as a < b, a = b, a > b
BigCmp(a, b) ==
    IF Len(a) > Len(b) THEN 1
    ELSE IF Len(a) < Len(b) THEN -1
    ELSE BigCmpAt(a, b, Len(a))

RECURSIVE BigAddC(_, _, _)
BigAddC(a, b, carry) ==
    IF a = <<>> /\ b = <<>> THEN BigFromInt(carry)
    ELSE LET x == IF a = <<>> THEN 0 ELSE a[1]
             y == IF b = <<>> THEN 0 ELSE b[1]
             t == x + y + carry
         IN  <<t % LimbBase>>
             \o BigAddC(IF a = <<>> THEN <<>> ELSE Tail(a),
                        IF b = <<>> THEN <<>> ELSE Tail(b), t \div LimbBase)

BigAdd(a, b) == BigAddC(a, b, 0)

RECURSIVE BigSubB(_, _, _)
BigSubB(a, b, borrow) ==
    IF a = <<>> THEN <<>>
    ELSE LET y == IF b = <<>> THEN 0 ELSE b[1]
             t == a[1] - y - borrow
         IN  <<IF t < 0 THEN t + LimbBase ELSE t>>
             \o BigSubB(Tail(a), IF b = <<>> THEN <<>> ELSE Tail(b),
                        IF t < 0 THEN 1 ELSE 0)

\* a - b for a >= b
BigSub(a, b) == BigTrim(BigSubB(a, b, 0))

RECURSIVE BigMulSmallC(_, _, _)
BigMulSmallC(a, n, carry) ==
    IF a = <<>> THEN BigFromInt(carry)
    ELSE LET t == a[1] * n + carry
         IN  <<t % LimbBase>> \o BigMulSmallC(Tail(a), n, t \div LimbBase)

\* a * n for 0 <= n < LimbBase
BigMulSmall(a, n) == BigTrim(BigMulSmallC(a, n, 0))

RECURSIVE BigDivRec(_, _)
BigDivRec(a, n) ==
    IF a = <<>> THEN [q |-> <<>>, r |-> 0]
    ELSE LET hi == BigDivRec(Tail(a), n)
             t  == hi.r * LimbBase + a[1]
         IN  [q |-> <<t \div n>> \o hi.q, r |-> t % n]

\* quotient and remainder of a by n, 0 < n < LimbBase
BigDivSmall(a, n) ==
    LET d == BigDivRec(a, n) IN [q |-> BigTrim(d.q), r |-> d.r]

RECURSIVE BitLenSmall(_)
BitLenSmall(n) == IF n = 0 THEN 0 ELSE 1 + BitLenSmall(n \div 2)

BigBitLen(a) ==
    IF a = <<>> THEN 0 ELSE (Len(a) - 1) * LimbBits + BitLenSmall(a[Len(a)])

\* a * 2^s
BigShl(a, s) ==
    IF a = <<>> THEN <<>>
    ELSE [i \in 1..(s \div LimbBits) |-> 0] \o BigMulSmall(a, 2^(s % LimbBits))

\* floor(a / 2^s)
BigShr(a, s) ==
    IF Len(a) <= s \div LimbBits THEN <<>>
    ELSE BigDivSmall(SubSeq(a, (s \div LimbBits) + 1, Len(a)),
                     2^(s % LimbBits)).q

-----------------------------------------------------------------------------
(* Dyadic rationals n * 2^e (n a multi-limb natural), the exact values     *)
(* between roundings, and Python floats: dyadics whose n has 53 bits.      *)

MantBits == 53

Dy(n, e) == [n |-> n, e |-> e]

DyOfInt(k) == Dy(BigFromInt(k), 0)

DyMin(a, b) == IF a < b THEN a ELSE b

\* -1, 0 or 1 as the value of a is below, equal to or above that of b
DyCmp(a, b) ==
    LET e0 == DyMin(a.e, b.e)
    IN  BigCmp(BigShl(a.n, a.e - e0), BigShl(b.n, b.e - e0))

DyLE(a, b) == DyCmp(a, b) <= 0

DyEq(a, b) == DyCmp(a, b) = 0

\* |a - b|
DyAbsDiff(a, b) ==
    LET e0 == DyMin(a.e, b.e)
        x  == BigShl(a.n, a.e - e0)
        y  == BigShl(b.n, b.e - e0)
    IN  Dy(IF BigCmp(x, y) >= 0 THEN BigSub(x, y) ELSE BigSub(y, x), e0)

DyMulInt(a, k) == Dy(BigMulSmall(a.n, k), a.e)

DyScale(a, k) == Dy(a.n, a.e + k)

\* the float nearest to d > 0, ties to the even significand
RoundNearestEven(d) ==
    LET len == BigBitLen(d.n)
    IN  IF len <= MantBits
        THEN Dy(BigShl(d.n, MantBits - len), d.e - (MantBits - len))
        ELSE LET sh   == len - MantBits
                 q    == BigShr(d.n, sh)
                 r    == BigSub(d.n, BigShl(q, sh))
                 c    == BigCmp(r, BigShl(<<1>>, sh - 1))
                 up   == c = 1 \/ (c = 0 /\ q[1] % 2 = 1)
                 q2   == IF up THEN BigAdd(q, <<1>>) ELSE q
             IN  IF BigBitLen(q2) > MantBits
                 THEN Dy(BigShr(q2, 1), d.e + sh + 1)
                 ELSE Dy(q2, d.e + sh)

\* float(k) for an int 0 < k < 2^31
FloatOfInt(k) == RoundNearestEven(DyOfInt(k))

\* a / k: a float by a positive int below LimbBase, correctly rounded. The
\* quotient is taken to at least 55 bits and a nonzero remainder kept as a
\* sticky low bit, so that the rounding sees the exact quotient's side.
FloatDivInt(a, k) ==
    LET s  == BitLenSmall(k) + 2
        d  == BigDivSmall(BigShl(a.n, s), k)
        q2 == BigShl(d.q, 1)
    IN  RoundNearestEven(Dy(IF d.r = 0 THEN q2 ELSE BigAdd(q2, <<1>>),
                            a.e - s - 1))

\* k * a: a positive int below LimbBase by a float, correctly rounded
FloatMulInt(k, a) == RoundNearestEven(DyMulInt(a, k))

\* a - b for floats a > b > 0, correctly rounded
FloatSub(a, b) ==
    LET e0 == DyMin(a.e, b.e)
    IN  RoundNearestEven(Dy(BigSub(BigShl(a.n, a.e - e0),
                                   BigShl(b.n, b.e - e0)), e0))

-----------------------------------------------------------------------------
(* Page sizes (reportlab.lib.pagesizes) and the scale-to-fit geometry.     *)

\* letter = (8.5*inch, 11*inch) = (612.0, 792.0)
letter == [width  |-> Dy(<<0, 0, 0, 153>>, -43),
           height |-> Dy(<<0, 0, 0, 198>>, -43)]

\* A4 = (210*mm, 297*mm) = (595.2755905511812, 841.8897637795277), the floats
\* 5236099468337991 * 2^-43 and 7405340676649445 * 2^-43
A4 == [width  |-> Dy(<<9031, 20899, 26833, 148>>, -43),
       height |-> Dy(<<29157, 30961, 15480, 210>>, -43)]

\* page_size.lower(), for the strings the model passes
PageSizeLower(s) ==
    CASE s = "A4" -> "a4"
      [] s = "Letter" -> "letter"
      [] s = "LEGAL" -> "legal"
      [] OTHER -> s

\* the name of the page size the canvas is created with
PageSizeName(s) == IF PageSizeLower(s) = "a4" THEN "A4" ELSE "letter"

PageDims(name) == IF name = "A4" THEN A4 ELSE letter

margin == 20

\* min(a, b) of Python: b only when b < a
FloatMin(a, b) == IF DyCmp(b, a) < 0 THEN b ELSE a

\* the scale after the clamp "if scale > 1: scale = 1"
ClampScaleMutNoClamp(scale) == scale

ClampScale(scale) == IF DyCmp(scale, DyOfInt(1)) > 0 THEN FloatOfInt(1) ELSE scale

\* The try block's arithmetic for an image of img_width x img_height pixels on
\* a page of the named size: the drawn size and the lower-left corner.
Fit(name, img_width, img_height) ==
    LET width  == PageDims(name).width
        height == PageDims(name).height
        max_img_width  == FloatSub(width, FloatOfInt(2 * margin))
        max_img_height == FloatSub(height, FloatOfInt(2 * margin))
        scale == ClampScale(FloatMin(FloatDivInt(max_img_width, img_width),
                                     FloatDivInt(max_img_height, img_height)))
        new_width  == FloatMulInt(img_width, scale)
        new_height == FloatMulInt(img_height, scale)
    IN  [img_width |-> img_width, img_height |-> img_height,
         width |-> width, height |-> height,
         scale |-> scale,
         new_width |-> new_width, new_height |-> new_height,
         x |-> FloatDivInt(FloatSub(width, new_width), 2),
         y |-> FloatDivInt(FloatSub(height, new_height), 2)]

\* c.drawImage(...) and c.showPage(): the page added for file name
DrawnPage(name, pagesize, img_width, img_height) ==
    [file |-> name, pagesize |-> pagesize,
     fit |-> Fit(pagesize, img_width, img_height)]
-----------------------------------------------------------------------------
(* Text: a string is the sequence of its code points.                      *)

\* str.lower() of one character (the names used are ASCII plus U+00B2)
LowerChar(c) == IF c \in 65..90 THEN c + 32 ELSE c

Lower(s) == [i \in 1..Len(s) |-> LowerChar(s[i])]

\* what the pattern \d matches among the characters used: 0-9
ReDigit(c) == c \in 48..57

\* the characters for which str.isdigit() holds: 0-9 and the superscript
\* digits U+00B2, U+00B3, U+00B9, which \d does not match and int() rejects
IsDigitChar(c) == c \in 48..57 \/ c \in {178, 179, 185}

\* text.isdigit()
StrIsDigit(s) == s /= <<>> /\ \A i \in 1..Len(s) : IsDigitChar(s[i])

\* s.endswith(suffix)
EndsWith(s, suffix) ==
    /\ Len(suffix) <= Len(s)
    /\ SubSeq(s, Len(s) - Len(suffix) + 1, Len(s)) = suffix

\* '.png', '.jpg', '.jpeg', '.gif', '.bmp', '.tiff'
image_extensions ==
    <<<<46, 112, 110, 103>>,
      <<46, 106, 112, 103>>,
      <<46, 106, 112, 101, 103>>,
      <<46, 103, 105, 102>>,
      <<46, 98, 109, 112>>,
      <<46, 116, 105, 102, 102>>>>

\* f.lower().endswith(image_extensions)
HasImageExtension(f) ==
    \E k \in 1..Len(image_extensions) : EndsWith(Lower(f), image_extensions[k])

\* length of the run of characters of s from position i that are (d) or are
\* not (~d) matched by \d
RECURSIVE RunLen(_, _, _)
RunLen(s, i, d) ==
    IF i > Len(s) \/ ReDigit(s[i]) /= d THEN 0 ELSE 1 + RunLen(s, i + 1, d)

\* re.split('(\d+)', s) from position i on: text runs (possibly empty at
\* either end) alternating with the maximal digit runs that separate them
RECURSIVE ReSplitFrom(_, _, _)
ReSplitFrom(s, i, d) ==
    LET k   == RunLen(s, i, d)
        run == SubSeq(s, i, i + k - 1)
    IN  IF d THEN <<run>> \o ReSplitFrom(s, i + k, FALSE)
        ELSE IF i + k > Len(s) THEN <<run>>
        ELSE <<run>> \o ReSplitFrom(s, i + k, TRUE)

ReSplit(s) == ReSplitFrom(s, 1, FALSE)

\* int(text) for a run of the digits 0-9
RECURSIVE IntOfDigits(_)
IntOfDigits(t) ==
    IF t = <<>> THEN 0
    ELSE 10 * IntOfDigits(SubSeq(t, 1, Len(t) - 1)) + (t[Len(t)] - 48)

\* whether int(text) raises ValueError for a run with text.isdigit()
IntRaises(t) == \E i \in 1..Len(t) : ~ReDigit(t[i])

\* one element of the key: an int for a digit run, else the lowercased text
KeyElem(t) ==
    IF StrIsDigit(t) THEN [isnum |-> TRUE, num |-> IntOfDigits(t), text |-> <<>>]
    ELSE [isnum |-> FALSE, num |-> 0, text |-> Lower(t)]

\* natural_sort_key(s) raises ValueError
KeyRaises(s) ==
    \E j \in 1..Len(ReSplit(s)) :
        StrIsDigit(ReSplit(s)[j]) /\ IntRaises(ReSplit(s)[j])

natural_sort_key(s) ==
    LET runs == ReSplit(s) IN [j \in 1..Len(runs) |-> KeyElem(runs[j])]

\* a < b for strings: by code point, a proper prefix first
RECURSIVE StrLess(_, _)
StrLess(a, b) ==
    IF b = <<>> THEN FALSE
    ELSE IF a = <<>> THEN TRUE
    ELSE IF a[1] /= b[1] THEN a[1] < b[1]
    ELSE StrLess(Tail(a), Tail(b))

\* a < b for two elements at the same position of two keys (both ints or
\* both strings: every key starts with a text run and alternates)
ElemLess(a, b) ==
    IF a.isnum /\ b.isnum THEN a.num < b.num ELSE StrLess(a.text, b.text)

\* a < b for lists: the first differing position decides, a proper prefix
\* is smaller
RECURSIVE KeyLess(_, _)
KeyLess(a, b) ==
    IF b = <<>> THEN FALSE
    ELSE IF a = <<>> THEN TRUE
    ELSE IF a[1] /= b[1] THEN ElemLess(a[1], b[1])
    ELSE KeyLess(Tail(a), Tail(b))

\* the order sorted(..., key=natural_sort_key) compares names by
NameLessMutLexical(a, b) == StrLess(a, b)

NameLess(a, b) == KeyLess(natural_sort_key(a), natural_sort_key(b))

\* x put into the sorted list s after every element that is not above it
RECURSIVE InsertSorted(_, _)
InsertSorted(s, x) ==
    IF s = <<>> THEN <<x>>
    ELSE IF NameLess(x, s[1]) THEN <<x>> \o s
    ELSE <<s[1]>> \o InsertSorted(Tail(s), x)

\* sorted(s, key=natural_sort_key): a stable sort
RECURSIVE Sorted(_)
Sorted(s) ==
    IF s = <<>> THEN <<>>
    ELSE InsertSorted(Sorted(SubSeq(s, 1, Len(s) - 1)), s[Len(s)])

\* [f for f in os.listdir(image_folder) if f.lower().endswith(...)]
RECURSIVE Retained(_)
Retained(entries) ==
    IF entries = <<>> THEN <<>>
    ELSE IF HasImageExtension(entries[1].name)
         THEN <<entries[1].name>> \o Retained(Tail(entries))
         ELSE Retained(Tail(entries))

\* image_files: the retained names, sorted; err when a key raises
ListImages(entries) ==
    LET kept == Retained(entries)
    IN  IF \E i \in 1..Len(kept) : KeyRaises(kept[i])
        THEN [err |-> "ValueError", files |-> <<>>]
        ELSE [err |-> "none", files |-> Sorted(kept)]

-----------------------------------------------------------------------------
(* The directories, images and faults the model draws its inputs from.     *)

\* "img1.png"
Name_img1_png == <<105, 109, 103, 49, 46, 112, 110, 103>>

\* "img2.png"
Name_img2_png == <<105, 109, 103, 50, 46, 112, 110, 103>>

\* "img10.png"
Name_img10_png == <<105, 109, 103, 49, 48, 46, 112, 110, 103>>

\* "IMG2.PNG"
Name_IMG2_PNG == <<73, 77, 71, 50, 46, 80, 78, 71>>

\* "img02.png"
Name_img02_png == <<105, 109, 103, 48, 50, 46, 112, 110, 103>>

\* "b.txt"
Name_b_txt == <<98, 46, 116, 120, 116>>

\* "c.JPG"
Name_c_JPG == <<99, 46, 74, 80, 71>>

\* "2.jpeg"
Name_n2_jpeg == <<50, 46, 106, 112, 101, 103>>

\* "²1.png"
Name_sup2_1_png == <<178, 49, 46, 112, 110, 103>>

\* "sub.png"
Name_sub_png == <<115, 117, 98, 46, 112, 110, 103>>

\* "docs"
Name_docs == <<100, 111, 99, 115>>

\* an entry os.listdir names: a file, or a subdirectory
File(n) == [name |-> n, is_dir |-> FALSE]

SubDir(n) == [name |-> n, is_dir |-> TRUE]

\* the sequences of at most k distinct entries of the set S
RECURSIVE Listings(_, _)
Listings(S, k) ==
    IF k = 0 THEN {<<>>}
    ELSE LET shorter == Listings(S, k - 1)
         IN  shorter \cup {Append(l, e) : <<l, e>> \in
                 {p \in shorter \X S : \A i \in 1..Len(p[1]) : p[1][i] /= p[2]}}
\* at most this many entries in the directory a conversion run lists
MaxListed == 3

\* at most this many entries in a directory of the sequencer's own check
MaxEntries == 3

\* the image sizes of the geometry's own check: DimSpan consecutive sizes
\* beside the sizes at and around the page's drawable area
DimSpan == 6

\* the directory entries of a conversion run
MainEntries ==
    {File(Name_img1_png), File(Name_img2_png), File(Name_img10_png),
     File(Name_b_txt), SubDir(Name_sub_png)}

\* the directory entries of the sequencer's own check
SeqEntries ==
    {File(Name_img1_png), File(Name_img2_png), File(Name_img10_png),
     File(Name_IMG2_PNG), File(Name_img02_png), File(Name_b_txt),
     File(Name_c_JPG), File(Name_n2_jpeg), File(Name_sup2_1_png),
     SubDir(Name_sub_png), SubDir(Name_docs)}

\* the pixel sizes (img_width, img_height) the images of a run may have
MainSizes == {<<2000, 1000>>}

Dims == {1, 3, 100, 555, 556, 572, 573, 752, 753, 801, 802, 1101, 2000, 32767}
            \cup (1054..(1053 + DimSpan))

GeomSizes == Dims \X Dims

\* the page_size strings: the radio buttons' two, and others a caller passes
GuiPageSizes == {"A4", "letter"}

PageSizeInputs == {"A4", "a4", "letter", "Letter", "LEGAL"}

\* how an invocation of update_progress ends: normally, or with an exception
\* out of progress_label.config or out of root.update_idletasks
CbOutcomes == {"ok", "config_raises", "refresh_raises"}

\* why ImageReader / drawImage raise for a file
DrawFailures == {"decode", "draw"}

-----------------------------------------------------------------------------
(* Progress events: the strings passed to progress_callback.               *)

Event(kind, i, total, file, detail) ==
    [kind |-> kind, i |-> i, total |-> total, file |-> file, detail |-> detail]

\* "错误：未找到图片文件"
EvNoImages == Event("no_images", 0, 0, <<>>, "")

\* f"正在处理 ({i + 1}/{total})：{filename}"
EvProcessing(i, total, filename) == Event("processing", i, total, filename, "")

\* f"警告：处理 {filename} 失败 - {str(e)}"
EvWarning(filename, e) == Event("warning", 0, 0, filename, e)

\* f"成功！PDF已保存至：{output_pdf}"
EvSuccess(path) == Event("success", 0, 0, <<>>, path)

\* f"转换失败：{str(e)}"
EvFailed(e) == Event("failed", 0, 0, <<>>, e)

\* "开始转换...", set by start_conversion itself, not through the callback
LabelStarting == Event("starting", 0, 0, <<>>, "")

\* "准备就绪"
LabelReady == Event("ready", 0, 0, <<>>, "")

\* update_progress called with each of evs in turn, the last call ending as
\* o: each invocation is recorded, the label shows the last text of which
\* config did not raise
Callback(evs, o) ==
    LET shown == IF o = "config_raises"
                 THEN SubSeq(evs, 1, Len(evs) - 1) ELSE evs
    IN  /\ events' = events \o evs
        /\ progress_label' =
               IF shown = <<>> THEN progress_label ELSE shown[Len(shown)]
        /\ cb_raised' = (cb_raised \/ o /= "ok")

NoCallback == UNCHANGED <<events, progress_label, cb_raised>>

-----------------------------------------------------------------------------
(* The directory listing and the destination file.                         *)

Unlisted == [state |-> "unlisted", entries |-> <<>>]

\* os.listdir raised: the folder is missing or cannot be listed
Missing == [state |-> "missing", entries |-> <<>>]

Listed(entries) == [state |-> "listed", entries |-> entries]

Absent == [written |-> FALSE, pages |-> <<>>]

Written(ps) == [written |-> TRUE, pages |-> ps]

-----------------------------------------------------------------------------
(* The front end: ImageToPdfApp.                                           *)

Init ==
    /\ image_folder = ""
    /\ output_pdf = ""
    /\ page_size = "A4"
    /\ start_button = "normal"
    /\ progress_label = LabelReady
    /\ dialog = "none"
    /\ pc = "idle"
    /\ exc = "none"
    /\ canvas = "none"
    /\ listing = Unlisted
    /\ image_files = <<>>
    /\ idx = 0
    /\ pages = <<>>
    /\ save_calls = 0
    /\ out_file = Absent
    /\ events = <<>>
    /\ cb_raised = FALSE

run_vars == <<pc, exc, canvas, listing, image_files, idx, pages, save_calls,
              out_file, events, cb_raised>>

\* select_image_folder: the dialog returns a folder, or "" when cancelled
SelectImageFolder ==
    /\ pc = "idle"
    /\ \E folder \in {"", "/photos"} :
           image_folder' = IF folder /= "" THEN folder ELSE image_folder
    /\ UNCHANGED <<output_pdf, page_size, start_button, progress_label, dialog>>
    /\ UNCHANGED run_vars

\* select_output_pdf
SelectOutputPdf ==
    /\ pc = "idle"
    /\ \E file \in {"", "/out/album.pdf"} :
           output_pdf' = IF file /= "" THEN file ELSE output_pdf
    /\ UNCHANGED <<image_folder, page_size, start_button, progress_label, dialog>>
    /\ UNCHANGED run_vars

\* the radio buttons bound to self.page_size
SelectPageSize ==
    /\ pc = "idle"
    /\ \E v \in GuiPageSizes : page_size' = v
    /\ UNCHANGED <<image_folder, output_pdf, start_button, progress_label, dialog>>
    /\ UNCHANGED run_vars

\* the state of the button once a run is under way
ButtonWhileRunning == "disabled"

\* start_conversion up to the call of convert_images_to_pdf: a click on the
\* enabled button, while the event loop is free to dispatch it. The button
\* is disabled and the label set before the try statement: when the label's
\* config or update_idletasks raises there, no run starts and nothing
\* re-enables the button.
StartConversion ==
    /\ pc = "idle"
    /\ start_button = "normal"
    /\ IF image_folder = ""
       THEN /\ dialog' = "error_no_folder"
            /\ UNCHANGED <<start_button, progress_label>>
            /\ UNCHANGED run_vars
       ELSE IF output_pdf = ""
       THEN /\ dialog' = "error_no_output"
            /\ UNCHANGED <<start_button, progress_label>>
            /\ UNCHANGED run_vars
       ELSE \E o \in CbOutcomes :
                /\ start_button' = ButtonWhileRunning
                /\ progress_label' =
                       IF o = "config_raises" THEN progress_label ELSE LabelStarting
                /\ dialog' = "none"
                /\ IF o = "ok"
                   THEN /\ pc' = "setup"
                        /\ exc' = "none"
                        /\ canvas' = "none"
                        /\ listing' = Unlisted
                        /\ image_files' = <<>>
                        /\ idx' = 0
                        /\ pages' = <<>>
                        /\ save_calls' = 0
                        /\ out_file' = Absent
                        /\ events' = <<>>
                        /\ cb_raised' = FALSE
                   ELSE UNCHANGED run_vars
    /\ UNCHANGED <<image_folder, output_pdf, page_size>>

\* the button's state after the finally clause
ButtonAfterRunMutStuck == start_button

ButtonAfterRun == "normal"

\* the messagebox after the call: showinfo when it returned, showerror when
\* an exception came out of it
DialogAfter(p) == IF p = "returned" THEN "success" ELSE "error_failed"

\* start_conversion from the return of convert_images_to_pdf (or the
\* exception out of it) to its end: the messagebox, then the finally clause
FinishRun ==
    /\ pc \in {"returned", "escaped"}
    /\ dialog' = DialogAfter(pc)
    /\ start_button' = ButtonAfterRun
    /\ pc' = "idle"
    /\ UNCHANGED <<image_folder, output_pdf, page_size, progress_label>>
    /\ UNCHANGED <<exc, canvas, listing, image_files, idx, pages, save_calls,
                   out_file, events, cb_raised>>
-----------------------------------------------------------------------------
(* The pipeline: convert_images_to_pdf, one action per step of the run.    *)

\* os.makedirs(output_dir) when the destination's directory is missing, then
\* the page size and canvas.Canvas(output_pdf, pagesize=pagesize)
Prepare ==
    /\ pc = "setup"
    /\ \E makedirs_ok \in BOOLEAN :
           IF makedirs_ok
           THEN /\ canvas' = PageSizeName(page_size)
                /\ pc' = "list"
                /\ exc' = exc
           ELSE /\ exc' = "makedirs"
                /\ pc' = "except"
                /\ canvas' = canvas
    /\ UNCHANGED <<image_folder, output_pdf, page_size, start_button,
                   progress_label, dialog, listing, image_files, idx, pages,
                   save_calls, out_file, events, cb_raised>>

\* whether the empty list returns at once, before the loop and c.save()
EmptyReturnsMutFallsThrough(total) == FALSE

EmptyReturns(total) == total = 0

\* os.listdir, the filter, the sort and "if total == 0", for a directory
\* that is missing or holds one of the listings of the set U. A list the
\* "if" lets through goes to the loop, which an empty list would leave at
\* once for c.save().
ListDirFrom(U) ==
    /\ pc = "list"
    /\ \/ /\ listing' = Missing
          /\ exc' = "listdir"
          /\ pc' = "except"
          /\ image_files' = image_files
          /\ NoCallback
       \/ \E d \in U :
              LET r == ListImages(d)
              IN  /\ listing' = Listed(d)
                  /\ IF r.err /= "none"
                     THEN /\ exc' = r.err
                          /\ pc' = "except"
                          /\ image_files' = image_files
                          /\ NoCallback
                     ELSE IF EmptyReturns(Len(r.files))
                     THEN /\ image_files' = r.files
                          /\ \E o \in CbOutcomes :
                                 /\ Callback(<<EvNoImages>>, o)
                                 /\ pc' = IF o = "ok" THEN "returned" ELSE "except"
                                 /\ exc' = IF o = "ok" THEN exc ELSE "callback"
                     ELSE /\ image_files' = r.files
                          /\ pc' = IF Len(r.files) = 0 THEN "save" ELSE "loop"
                          /\ exc' = exc
                          /\ NoCallback
    /\ UNCHANGED <<image_folder, output_pdf, page_size, start_button, dialog,
                   canvas, idx, pages, save_calls, out_file>>

ListDir == ListDirFrom(Listings(MainEntries, MaxListed))

\* whether the named entry of the listed directory is a subdirectory
IsDir(filename) ==
    \E i \in 1..Len(listing.entries) :
        listing.entries[i].name = filename /\ listing.entries[i].is_dir

\* how ImageReader(image_path) and c.drawImage end for a file: a page of an
\* image of one of the sizes S, or an exception; a subdirectory never decodes
DrawOutcomes(filename, S) ==
    IF IsDir(filename)
    THEN {[ok |-> FALSE, size |-> <<0, 0>>, err |-> "decode"]}
    ELSE {[ok |-> TRUE, size |-> sz, err |-> ""] : sz \in S}
         \cup {[ok |-> FALSE, size |-> <<0, 0>>, err |-> e] : e \in DrawFailures}

\* the pages after a file whose try block raised
PagesAfterFailureMutBlankPage(filename) ==
    Append(pages, [file |-> filename, pagesize |-> canvas,
                   fit |-> Fit(canvas, 1, 1)])

PagesAfterFailure(filename) == pages

\* the events of one file: the processing event of file number i of total,
\* then the warning when its try block raised with e
FileEventsMutNoCount(i, total, filename, failed, e) ==
    <<EvProcessing(1, total, filename)>>
        \o IF failed THEN <<EvWarning(filename, e)>> ELSE <<>>

FileEvents(i, total, filename, failed, e) ==
    <<EvProcessing(i, total, filename)>>
        \o IF failed THEN <<EvWarning(filename, e)>> ELSE <<>>

\* one pass of the loop: the processing event, the try block, and the
\* warning of its except clause, for images of the sizes S
ProcessFileFrom(S) ==
    /\ pc = "loop"
    /\ idx < Len(image_files)
    /\ LET filename == image_files[idx + 1]
           total    == Len(image_files)
       IN  \E o1 \in CbOutcomes :
               IF o1 /= "ok"
               THEN /\ Callback(FileEvents(idx + 1, total, filename, FALSE, ""), o1)
                    /\ exc' = "callback"
                    /\ pc' = "except"
                    /\ UNCHANGED <<idx, pages>>
               ELSE \E d \in DrawOutcomes(filename, S) :
                        IF d.ok
                        THEN /\ Callback(FileEvents(idx + 1, total, filename,
                                                    FALSE, ""), "ok")
                             /\ pages' = Append(pages,
                                    DrawnPage(filename, canvas, d.size[1], d.size[2]))
                             /\ idx' = idx + 1
                             /\ pc' = IF idx + 1 = total THEN "save" ELSE "loop"
                             /\ exc' = exc
                        ELSE \E o2 \in CbOutcomes :
                                 /\ Callback(FileEvents(idx + 1, total, filename,
                                                        TRUE, d.err), o2)
                                 /\ pages' = PagesAfterFailure(filename)
                                 /\ IF o2 = "ok"
                                    THEN /\ idx' = idx + 1
                                         /\ pc' = IF idx + 1 = total
                                                  THEN "save" ELSE "loop"
                                         /\ exc' = exc
                                    ELSE /\ idx' = idx
                                         /\ pc' = "except"
                                         /\ exc' = "callback"
    /\ UNCHANGED <<image_folder, output_pdf, page_size, start_button, dialog,
                   canvas, listing, image_files, save_calls, out_file>>

ProcessFile == ProcessFileFrom(MainSizes)

\* c.save() and the success event
Save ==
    /\ pc = "save"
    /\ save_calls' = save_calls + 1
    /\ \E write_ok \in BOOLEAN :
           IF write_ok
           THEN /\ out_file' = Written(pages)
                /\ \E o \in CbOutcomes :
                       /\ Callback(<<EvSuccess(output_pdf)>>, o)
                       /\ pc' = IF o = "ok" THEN "returned" ELSE "except"
                       /\ exc' = IF o = "ok" THEN exc ELSE "callback"
           ELSE /\ out_file' = out_file
                /\ exc' = "save"
                /\ pc' = "except"
                /\ NoCallback
    /\ UNCHANGED <<image_folder, output_pdf, page_size, start_button, dialog,
                   canvas, listing, image_files, idx, pages>>

\* where the call stands after the outer handler has reported an exception
\* and its callback ended as o: it returns None, or the callback's own
\* exception leaves the function
AfterHandler(o) == IF o = "ok" THEN "returned" ELSE "escaped"

\* the outer "except Exception as e": the failure event
HandleFatal ==
    /\ pc = "except"
    /\ \E o \in CbOutcomes :
           /\ Callback(<<EvFailed(exc)>>, o)
           /\ pc' = AfterHandler(o)
    /\ UNCHANGED <<image_folder, output_pdf, page_size, start_button, dialog,
                   exc, canvas, listing, image_files, idx, pages, save_calls,
                   out_file>>

Next ==
    \/ SelectImageFolder
    \/ SelectOutputPdf
    \/ SelectPageSize
    \/ StartConversion
    \/ Prepare
    \/ ListDir
    \/ ProcessFile
    \/ Save
    \/ HandleFatal
    \/ FinishRun

Spec == Init /\ [][Next]_vars
-----------------------------------------------------------------------------
(* The sequencer and the geometry on inputs of their own: the same steps   *)
(* of a run, started where the run reaches them, over wider inputs.        *)

\* a run that has created its canvas for page size string ps
RunAt(p, ps) ==
    /\ image_folder = "/photos"
    /\ output_pdf = "/out/album.pdf"
    /\ page_size = ps
    /\ start_button = ButtonWhileRunning
    /\ progress_label = LabelStarting
    /\ dialog = "none"
    /\ pc = p
    /\ exc = "none"
    /\ canvas = IF p = "setup" THEN "none" ELSE PageSizeName(ps)
    /\ listing = Unlisted
    /\ image_files = <<>>
    /\ idx = 0
    /\ pages = <<>>
    /\ save_calls = 0
    /\ out_file = Absent
    /\ events = <<>>
    /\ cb_raised = FALSE

InitSeq == \E ps \in GuiPageSizes : RunAt("list", ps)

SeqListDir == ListDirFrom(Listings(SeqEntries, MaxEntries))

NextSeq == SeqListDir

SpecSeq == InitSeq /\ [][NextSeq]_vars

InitGeom == \E ps \in PageSizeInputs : RunAt("setup", ps)

GeomListDir == ListDirFrom({<<File(Name_img1_png)>>})

GeomProcessFile == ProcessFileFrom(GeomSizes)

NextGeom ==
    \/ Prepare
    \/ GeomListDir
    \/ GeomProcessFile

SpecGeom == InitGeom /\ [][NextGeom]_vars
-----------------------------------------------------------------------------
(* Properties.                                                             *)

IsWarning(e) == e.kind = "warning"

IsProcessing(e) == e.kind = "processing"

IsTerminal(e) == e.kind \in {"success", "failed"}

\* the file names of a sequence of events or of pages
FilesOf(s) == [i \in 1..Len(s) |-> s[i].file]

\* the files the loop has finished with
Done == SubSeq(image_files, 1, idx)

\* the files with a warning event
Warned == {events[k].file : k \in {j \in 1..Len(events) : IsWarning(events[j])}}

WasWarned(f) == f \in Warned

NotWarned(f) == f \notin Warned

\* C1: in a run over a non-empty list whose progress callback returns
\* normally, whatever files fail to decode or draw: the pages are those of
\* the files finished without a failure, in list order; the failure events
\* are those of the failing files, one each, in list order; a subdirectory
\* passed as a file is among the failing ones; nothing but a write failure
\* of c.save() aborts the run; and a run that returns without one has gone
\* through the whole list, saved the document once with exactly these pages
\* and ended on the success event naming the destination.
C1_PartialFailure ==
    (image_files /= <<>> /\ ~cb_raised) =>
        /\ FilesOf(pages) = SelectSeq(Done, NotWarned)
        /\ FilesOf(SelectSeq(events, IsWarning)) = SelectSeq(Done, WasWarned)
        /\ \A i \in 1..idx : IsDir(image_files[i]) => WasWarned(image_files[i])
        /\ exc \in {"none", "save"}
        /\ (exc = "none" /\ pc /= "idle") => pc \in {"loop", "save", "returned"}
        /\ (pc = "returned" /\ exc = "none") =>
               /\ idx = Len(image_files)
               /\ save_calls = 1
               /\ out_file = Written(pages)
               /\ events[Len(events)] = EvSuccess(output_pdf)
               /\ Cardinality({k \in 1..Len(events) : IsTerminal(events[k])}) = 1

\* C1's case: three files, the second failed, the run returned with the
\* pages of the first and third saved
C1_Witness ==
    /\ pc = "returned"
    /\ ~cb_raised
    /\ Len(image_files) = 3
    /\ FilesOf(pages) = <<image_files[1], image_files[3]>>
    /\ FilesOf(SelectSeq(events, IsWarning)) = <<image_files[2]>>
    /\ out_file = Written(pages)
    /\ events[Len(events)].kind = "success"

\* C2 as claimed: after os.listdir failed, no processing event was emitted,
\* no page written, the document not saved, and the failure reaches the
\* caller: convert_images_to_pdf does not return normally and
\* start_conversion shows no success.
C2_DirectoryErrorSurfaces ==
    listing.state = "missing" =>
        /\ \A k \in 1..Len(events) : ~IsProcessing(events[k])
        /\ pages = <<>>
        /\ save_calls = 0
        /\ pc /= "returned"
        /\ dialog /= "success"

\* the run over a listable directory without a supported image is over
EmptyRunOver ==
    /\ pc = "idle"
    /\ listing.state = "listed"
    /\ ListImages(listing.entries) = [err |-> "none", files |-> <<>>]
    /\ ~cb_raised

\* C3 as claimed: a finished run over a listable directory without a
\* supported image emitted the single "no images" event, wrote no page,
\* never saved, emitted no success event, and ended in a way the caller
\* tells from success: start_conversion shows no success.
C3_EmptyDistinguished ==
    EmptyRunOver =>
        /\ events = <<EvNoImages>>
        /\ pages = <<>>
        /\ save_calls = 0
        /\ ~out_file.written
        /\ dialog /= "success"

\* C4 as claimed: on every exit of a call that created the document, the
\* document has been finalized exactly once.
C4_FinalizedOnEveryExit ==
    (pc \in {"returned", "escaped"} /\ canvas /= "none") => save_calls = 1

\* C4, amended: c.save() is called at most once in a run, and only after the
\* last file of a non-empty list; a call that returns from a non-empty list
\* without an exception has called it once and written the pages; a call
\* that ends on the empty list or on an exception raised before the loop
\* (makedirs, listdir, the sort) has not called it and has written nothing.
C4_FinalizedAtMostOnce ==
    /\ save_calls <= 1
    /\ save_calls = 1 =>
           /\ canvas /= "none"
           /\ image_files /= <<>>
           /\ idx = Len(image_files)
    /\ (pc = "returned" /\ image_files /= <<>> /\ exc = "none") =>
           /\ save_calls = 1
           /\ out_file = Written(pages)
    /\ (pc \in {"returned", "escaped"}
          /\ (image_files = <<>> \/ exc \in {"makedirs", "listdir", "ValueError"})) =>
           /\ save_calls = 0
           /\ ~out_file.written

\* C4's case: the call returns on the empty list, its canvas never saved
C4_Witness ==
    /\ pc = "returned"
    /\ listing.state = "listed"
    /\ image_files = <<>>
    /\ canvas /= "none"
    /\ save_calls = 0
    /\ ~out_file.written

\* C5 as claimed: after a fatal error (the directory cannot be listed, the
\* destination cannot be created or written) no success event is emitted,
\* the call does not return normally, and start_conversion shows no success.
C5_FatalPropagates ==
    exc \in {"makedirs", "listdir", "save"} =>
        /\ \A k \in 1..Len(events) : events[k].kind /= "success"
        /\ pc /= "returned"
        /\ dialog /= "success"
\* |a - b| <= b / 2^k
Near(a, b, k) == DyLE(DyScale(DyAbsDiff(a, b), k), b)

\* W - 40 and H - 40 as exact numbers
MaxW(f) == DyAbsDiff(f.width, DyOfInt(2 * margin))

MaxH(f) == DyAbsDiff(f.height, DyOfInt(2 * margin))

\* C6 as claimed, of one page: every relation exact.
FitExact(f) ==
    /\ DyLE(f.new_width, DyOfInt(f.img_width))
    /\ DyLE(f.new_width, MaxW(f))
    /\ DyLE(f.new_height, DyOfInt(f.img_height))
    /\ DyLE(f.new_height, MaxH(f))
    /\ DyEq(DyMulInt(f.new_width, f.img_height),
            DyMulInt(f.new_height, f.img_width))
    /\ \/ DyEq(f.new_width, DyOfInt(f.img_width))
       \/ DyEq(f.new_width, MaxW(f))
       \/ DyEq(f.new_height, MaxH(f))
    /\ DyEq(DyScale(f.x, 1), DyAbsDiff(f.width, f.new_width))
    /\ DyEq(DyScale(f.y, 1), DyAbsDiff(f.height, f.new_height))
    /\ DyLE(DyOfInt(margin), f.x)
    /\ DyLE(DyOfInt(margin), f.y)

\* C6 as claimed: on every page drawn, dw <= min(img_w, W-40),
\* dh <= min(img_h, H-40), dw*img_h = dh*img_w, one of dw = img_w,
\* dw = W-40, dh = H-40 holds, x = (W-dw)/2 >= 20 and y = (H-dh)/2 >= 20.
C6_GeometryExact == \A i \in 1..Len(pages) : FitExact(pages[i].fit)

\* C6, amended, of one page: the relations up to the rounding of the
\* floating-point operations.
FitWithinRounding(f) ==
    /\ DyLE(f.new_width, DyOfInt(f.img_width))
    /\ DyLE(f.new_height, DyOfInt(f.img_height))
    /\ DyLE(f.new_width, MaxW(f)) \/ Near(f.new_width, MaxW(f), 52)
    /\ DyLE(f.new_height, MaxH(f)) \/ Near(f.new_height, MaxH(f), 52)
    /\ Near(DyMulInt(f.new_width, f.img_height),
            DyMulInt(f.new_height, f.img_width), 52)
    /\ \/ /\ DyEq(f.new_width, DyOfInt(f.img_width))
          /\ DyEq(f.new_height, DyOfInt(f.img_height))
       \/ Near(f.new_width, MaxW(f), 52)
       \/ Near(f.new_height, MaxH(f), 52)
    /\ Near(DyScale(f.x, 1), DyAbsDiff(f.width, f.new_width), 53)
    /\ Near(DyScale(f.y, 1), DyAbsDiff(f.height, f.new_height), 53)
    /\ DyLE(DyAbsDiff(DyOfInt(margin), Dy(<<1>>, -43)), f.x)
    /\ DyLE(DyAbsDiff(DyOfInt(margin), Dy(<<1>>, -43)), f.y)

\* C6, amended: on every page drawn, dw <= img_w and dh <= img_h exactly
\* (never upscaled); dw and dh exceed W-40 and H-40 by at most a 2^-52 part
\* of them; dw*img_h and dh*img_w differ by at most a 2^-52 part; either the
\* image is drawn at its own size, or dw is within a 2^-52 part of W-40, or
\* dh within a 2^-52 part of H-40; x and y are within a 2^-53 part of
\* (W-dw)/2 and (H-dh)/2, and at least 20 - 2^-43.
C6_GeometryWithinRounding ==
    \A i \in 1..Len(pages) : FitWithinRounding(pages[i].fit)

\* C6's case: an image wider than the drawable area of either page size,
\* scaled down, whose drawn width the rounding leaves above W-40 and whose
\* x below 20
C6_Witness ==
    /\ Len(pages) = 1
    /\ pages[1].fit.img_width > 572
    /\ DyCmp(pages[1].fit.scale, DyOfInt(1)) < 0
    /\ DyCmp(pages[1].fit.new_width, MaxW(pages[1].fit)) > 0
    /\ DyCmp(pages[1].fit.x, DyOfInt(margin)) < 0

\* the position of a name in the directory's enumeration
PosInListing(f) ==
    CHOOSE i \in 1..Len(listing.entries) : listing.entries[i].name = f

\* a sequence of names without the name at position i
Without(s, i) == SubSeq(s, 1, i - 1) \o SubSeq(s, i + 1, Len(s))

\* whether s and t hold the same names, each as often
RECURSIVE IsPermutation(_, _)
IsPermutation(s, t) ==
    IF s = <<>> THEN t = <<>>
    ELSE \E j \in 1..Len(t) :
             t[j] = s[1] /\ IsPermutation(Tail(s), Without(t, j))

\* the sort has produced the list
SortDone == listing.state = "listed" /\ exc /= "ValueError"

C8_FilesOnly ==
    SortDone =>
        {image_files[i] : i \in 1..Len(image_files)}
            = {listing.entries[i].name : i \in
                  {j \in 1..Len(listing.entries) :
                      /\ ~listing.entries[j].is_dir
                      /\ HasImageExtension(listing.entries[j].name)}}

\* number of processing events among the first k events
ProcessingUpTo(k) == Cardinality({j \in 1..k : IsProcessing(events[j])})

\* C9: in a run over N >= 1 files whose progress callback returns normally,
\* the j-th processing event is "(j/N) <the j-th file>"; a failure event
\* comes right after the processing event of its file; a terminal event
\* (success or failure) is the last event and comes after all N processing
\* events; there is no "no images" event; and when the call returns, the
\* last event is the terminal one.
C9_EventOrder ==
    (image_files /= <<>> /\ ~cb_raised) =>
        /\ \A k \in 1..Len(events) :
               /\ IsProcessing(events[k]) =>
                      /\ events[k].i = ProcessingUpTo(k)
                      /\ events[k].total = Len(image_files)
                      /\ events[k].i <= Len(image_files)
                      /\ events[k].file = image_files[events[k].i]
               /\ IsWarning(events[k]) =>
                      /\ k > 1
                      /\ IsProcessing(events[k - 1])
                      /\ events[k - 1].file = events[k].file
               /\ IsTerminal(events[k]) =>
                      /\ k = Len(events)
                      /\ ProcessingUpTo(k) = Len(image_files)
               /\ events[k].kind /= "no_images"
        /\ ProcessingUpTo(Len(events)) = idx
        /\ pc = "returned" =>
               /\ events /= <<>>
               /\ IsTerminal(events[Len(events)])

\* C9's case: a returned run of three files with a failure event in the
\* middle of the stream and the success event last
C9_Witness ==
    /\ pc = "returned"
    /\ ~cb_raised
    /\ Len(image_files) = 3
    /\ Len(events) = 5
    /\ IsWarning(events[3])
    /\ events[5].kind = "success"

\* C10: the button is disabled whenever a run is active; no run starts
\* while one is active; the step that ends a run, whether the call returned
\* or an exception came out of it, leaves the button enabled; and a start
\* request with the folder or the destination missing starts no run and
\* leaves the button as it was, enabled.
C10_SingleFlight ==
    /\ [](pc /= "idle" => start_button = "disabled")
    /\ [][pc /= "idle" => pc' /= "setup"]_vars
    /\ [][(pc \in {"returned", "escaped"} /\ pc' = "idle")
             => start_button' = "normal"]_vars
    /\ [][(pc = "idle" /\ (image_folder = "" \/ output_pdf = ""))
             => (pc' = "idle" /\ start_button' = start_button)]_vars
    /\ []((image_folder = "" \/ output_pdf = "") => start_button = "normal")

\* C10's case: a run ended by an exception out of the progress callback,
\* the button enabled again
C10_Witness ==
    /\ pc = "idle"
    /\ cb_raised
    /\ dialog = "error_failed"
    /\ start_button = "normal"

====
